---- MODULE Spec2Model ----
(***************************************************************************)
(* Publication review backend (publications/views.py, serializers.py).     *)
(*                                                                         *)
(* State: the Publication, Views (reaction ledger) and Notification        *)
(* tables, plus the last HTTP response.  One action per request handler.   *)
(* Text values are sequences of one-character strings so that strip(),     *)
(* split(',') and icontains are computed, not assumed.                     *)
(* Of a publication's content fields only `title` is stored; abstract,     *)
(* content, keywords and attachments follow the same serializer path.      *)
(***************************************************************************)
EXTENDS Integers, Sequences, FiniteSets

(* ------------------------------ bounds -------------------------------- *)
MaxPubs == 1
MaxRequests == 4
MaxInflight == 2

(* ------------------------------ users --------------------------------- *)
Users == {"a1", "e1", "e2"}

role(u) == IF u \in {"e1", "e2"} THEN "editor" ELSE "author"

NoUser == "<null>"

(* ------------------------------ text ---------------------------------- *)
Absent == <<"<absent>">>
Null == <<"<null>">>

UpperChars == <<"A","B","C","D","E","F","G","H","I","J","K","L","M",
                "N","O","P","Q","R","S","T","U","V","W","X","Y","Z">>
LowerChars == <<"a","b","c","d","e","f","g","h","i","j","k","l","m",
                "n","o","p","q","r","s","t","u","v","w","x","y","z">>

LowerChar(c) ==
  IF \E i \in 1..Len(UpperChars) : UpperChars[i] = c
  THEN LowerChars[CHOOSE i \in 1..Len(UpperChars) : UpperChars[i] = c]
  ELSE c

Lower(s) == [i \in 1..Len(s) |-> LowerChar(s[i])]

RECURSIVE LStrip(_)
LStrip(s) == IF s # <<>> /\ Head(s) = " " THEN LStrip(Tail(s)) ELSE s

RECURSIVE RStrip(_)
RStrip(s) ==
  IF s # <<>> /\ s[Len(s)] = " " THEN RStrip(SubSeq(s, 1, Len(s) - 1)) ELSE s

Strip(s) == RStrip(LStrip(s))

\* str.split(','): the pieces between commas, empty pieces included
RECURSIVE SplitComma(_, _)
SplitComma(s, cur) ==
  IF s = <<>> THEN <<cur>>
  ELSE IF Head(s) = "," THEN <<cur>> \o SplitComma(Tail(s), <<>>)
  ELSE SplitComma(Tail(s), Append(cur, Head(s)))

\* needle in haystack, case-insensitively (the ORM's __icontains)
IContains(hay, needle) ==
  LET h == Lower(hay)
      n == Lower(needle)
  IN  \E i \in 1..(Len(h) - Len(n) + 1) : SubSeq(h, i, i + Len(n) - 1) = n

(* --------------------------- request inputs --------------------------- *)
StatusAbsent == "<absent>"

\* status strings a payload may carry; the serializer's CharField takes any
StatusIn == {StatusAbsent, "pending", "approved", "rejected", "archived"}

TooShort == <<" ","t","o","o"," ","s","h","o","r","t"," ">>
NoteIn == {Absent, Null, <<" ">>, TooShort}

T1 == <<"Q","u","a","n","t","u","m"," ","D","o","t","s">>
T2 == <<"D","e","e","p"," ","O","c","e","a","n","s">>
Short == <<"S","h","o","r","t">>

Payload(status, rejection_note, title) ==
  [status |-> status, rejection_note |-> rejection_note, title |-> title]

\* POST bodies: every status/note combination with a valid title, and one
\* body whose title fails validate_title
CreatePayloads ==
  {Payload(s, n, T1) : s \in StatusIn, n \in NoteIn}
    \cup {Payload(StatusAbsent, Absent, Short)}

\* PATCH bodies: every status/note combination without a title, a new title
\* alone or with a status, and one body whose title fails validate_title
PatchPayloads ==
  {Payload(s, n, Absent) : s \in StatusIn, n \in NoteIn}
    \cup {Payload(s, Absent, T2) : s \in {StatusAbsent, "approved"}}
    \cup {Payload(StatusAbsent, Absent, Short)}

\* PUT bodies: the title is required; with and without a status and a note
PutPayloads ==
  {Payload(s, n, T2) : s \in {StatusAbsent, "approved"},
                       n \in {Absent, TooShort}}
    \cup {Payload("approved", Absent, Absent)}

\* <<partial, request body>>
UpdateRequests ==
  {<<TRUE, d>> : d \in PatchPayloads} \cup {<<FALSE, d>> : d \in PutPayloads}

\* ?keywords= query strings of the list endpoint
KwQuant == <<"z",","," ","q","U","A","N","T"," ",",">>
KwNone == <<"x","y","z">>
KeywordsIn == {Absent, KwQuant, KwNone}

(* ------------------------------ state --------------------------------- *)
VARIABLES
  nreq,       \* requests handled so far
  pubs,       \* Publication table: id -> row
  nextPub,    \* next Publication primary key
  ledger,     \* Views table: <<publication id, user>> -> row
  notifs,     \* Notification table: id -> row
  nextNotif,  \* next Notification primary key
  resp,       \* the response of the last request
  inflight    \* requests between two of their database statements

vars == <<nreq, pubs, nextPub, ledger, notifs, nextNotif, resp, inflight>>

EmptyFn == [x \in {} |-> x]

Put(f, k, v) == [x \in DOMAIN f \cup {k} |-> IF x = k THEN v ELSE f[x]]

Drop(f, ks) == [x \in DOMAIN f \ ks |-> f[x]]

\* status code, the exception or error message behind it, and for a list
\* the ids of the rows returned
Response(op, u, target, code, error, ids) ==
  [op |-> op, user |-> u, target |-> target, code |-> code, error |-> error,
   ids |-> ids]

(* --------------------------- access policy ---------------------------- *)
\* everyone else is let through unless the publication is rejected
HasObjectPermission_NotRejected(u, obj) ==
  IF role(u) = "editor" THEN TRUE
  ELSE IF obj.author = u THEN TRUE
  ELSE obj.status # "rejected"

HasObjectPermission(u, obj) ==
  IF role(u) = "editor" THEN TRUE
  ELSE IF obj.author = u THEN TRUE
  ELSE obj.status = "approved"

(* ----------------------------- list ----------------------------------- *)
\* [k.strip() for k in keywords.split(',') if k.strip()]
KeywordList(keywords) ==
  LET parts == SplitComma(keywords, <<>>)
  IN  {Strip(parts[i]) : i \in {j \in 1..Len(parts) : Strip(parts[j]) # <<>>}}

GetQueryset(u, keywords) ==
  LET all == DOMAIN pubs
      matched ==
        IF keywords # Absent /\ keywords # <<>>
        THEN {id \in all :
                \E k \in KeywordList(keywords) : IContains(pubs[id].title, k)}
        ELSE all
  IN  IF role(u) = "editor" THEN matched
      ELSE {id \in matched :
              pubs[id].author = u \/ pubs[id].status = "approved"}

(* --------------------------- serializer ------------------------------- *)
MinTitleLen == 10

\* CharField trims, rejects blank, then validate_title
ValidTitle(t) == Strip(t) # <<>> /\ Len(Strip(t)) >= MinTitleLen

\* title is required unless the update is partial
IsValid(data, partial) ==
  IF data.title = Absent THEN partial ELSE ValidTitle(data.title)

\* validated_data: the fields the serializer will write
ValidatedData(data, partial) ==
  [status |-> IF data.status = StatusAbsent /\ ~partial THEN "pending"
              ELSE data.status,
   rejection_note |-> IF data.rejection_note \in {Absent, Null}
                      THEN data.rejection_note
                      ELSE Strip(data.rejection_note),
   title |-> IF data.title = Absent THEN Absent ELSE Strip(data.title)]

\* PublicationSerializer.update: setattr for every validated field, save()
SerializerUpdate(instance, vd) ==
  [instance EXCEPT
     !.status = IF vd.status = StatusAbsent THEN @ ELSE vd.status,
     !.rejection_note = IF vd.rejection_note = Absent THEN @
                        ELSE vd.rejection_note,
     !.title = IF vd.title = Absent THEN @ ELSE vd.title]

\* the Publication model's values for fields the request does not set
PublicationDefaults == [editor |-> NoUser, rejection_note |-> Null, views |-> 0]

\* PublicationSerializer.create via perform_create: save(author=caller)
SerializerCreate(u, vd) ==
  [author |-> u, editor |-> PublicationDefaults.editor, status |-> vd.status,
   rejection_note |-> IF vd.rejection_note = Absent
                      THEN PublicationDefaults.rejection_note
                      ELSE vd.rejection_note,
   views |-> PublicationDefaults.views, title |-> vd.title]

(* ------------------------ PublicationDetailView ----------------------- *)
\* generics get_object: the lookup (404) and check_object_permissions (403)
GetObjectCode(u, id) ==
  IF id \notin DOMAIN pubs THEN 404
  ELSE IF ~HasObjectPermission(u, pubs[id]) THEN 403
  ELSE 200

ErrorOf(code) ==
  IF code = 404 THEN "NotFound"
  ELSE IF code = 403 THEN "PermissionDenied"
  ELSE ""

\* get_object's own part, on the instance it has read: one more view unless
\* a Views row of the pair exists
CountView(u, id, publication) ==
  IF <<id, u>> \notin DOMAIN ledger
  THEN [publication EXCEPT !.views = @ + 1]
  ELSE publication

\* every detail request counts
GetObject_Always(u, id) == [pubs[id] EXCEPT !.views = @ + 1]

\* get_object when nothing runs between its read and its save
GetObject(u, id) == CountView(u, id, pubs[id])

\* data.get('rejection_note', '').strip() or None ; None.strip() raises
NoteCrashes(data) == data.rejection_note = Null

\* the note is stored as sent, without strip()
RawNote_NoStrip(data) ==
  LET s == IF data.rejection_note = Absent THEN <<>> ELSE data.rejection_note
  IN  IF s = <<>> THEN Null ELSE s

RawNote(data) ==
  LET s == IF data.rejection_note = Absent THEN <<>>
           ELSE Strip(data.rejection_note)
  IN  IF s = <<>> THEN Null ELSE s

\* the acting editor is not excluded
OtherEditors_All(u) == {e \in Users : role(e) = "editor"}

OtherEditors(u) == {e \in Users : role(e) = "editor" /\ e # u}

Message(kind, instance, status_value, by) ==
  [kind |-> kind, title |-> instance.title, status |-> status_value,
   by |-> by]

\* the Notification model's value for the field create() does not set
NotificationDefaults == [is_read |-> FALSE]

\* Notification.objects.create(user, message, related_publication)
Notification(to, message, id) ==
  [user |-> to, message |-> message, related_publication |-> id,
   is_read |-> NotificationDefaults.is_read]

\* the rows the editor branch creates, in creation order
StatusNotifications(u, id, instance, status_value) ==
  LET eds == OtherEditors(u)
      order == CHOOSE q \in [1..Cardinality(eds) -> eds] :
                 \A i, j \in DOMAIN q : i # j => q[i] # q[j]
  IN  <<Notification(instance.author,
                     Message("author", instance, status_value, NoUser), id)>>
      \o [i \in 1..Cardinality(eds) |->
            Notification(order[i],
                         Message("editor", instance, status_value, u), id)]

AddNotifications(new) ==
  [n \in DOMAIN notifs \cup (nextNotif..(nextNotif + Len(new) - 1)) |->
     IF n \in DOMAIN notifs THEN notifs[n] ELSE new[n - nextNotif + 1]]

\* the guard is missing
RejectedGuard_Never(u, instance) == FALSE

\* "Rejected publications cannot be changed or updated."
RejectedGuard(u, instance) ==
  instance.status = "rejected" /\ role(u) = "editor"

\* perform_update on the instance get_object returned:
\* [code, pub (the row as saved), new (notifications created)]
PerformUpdate(u, id, instance, data, vd) ==
  LET status_value == data.status
      rejection_note == RawNote(data)
  IN
  IF NoteCrashes(data)
  THEN [code |-> 500, error |-> "AttributeError", pub |-> instance,
        new |-> <<>>]
  ELSE IF RejectedGuard(u, instance)
  THEN [code |-> 500, error |-> "ValueError", pub |-> instance, new |-> <<>>]
  ELSE IF role(u) = "editor" /\ status_value # StatusAbsent
  THEN LET saved == [SerializerUpdate(instance, vd) EXCEPT
                       !.editor = u, !.status = status_value]
           final == [saved EXCEPT
                       !.rejection_note =
                          IF status_value = "rejected" THEN rejection_note
                          ELSE Null]
       IN  [code |-> 200, error |-> "", pub |-> final,
            new |-> StatusNotifications(u, id, final, status_value)]
  ELSE IF u = instance.author
  THEN [code |-> 200, error |-> "", pub |-> SerializerUpdate(instance, vd),
        new |-> <<>>]
  ELSE [code |-> 403, error |-> "PermissionDenied", pub |-> instance,
        new |-> <<>>]

PubIds == 1..MaxPubs

\* every request is one step; the run is cut after MaxRequests of them
Begin == nreq < MaxRequests /\ nreq' = nreq + 1

\* a request handled with no other request's statement in between
Handle == Begin /\ UNCHANGED inflight

(* ------------------- PublicationListCreateView ------------------------ *)
\* POST: validate, then perform_create
Create(u, data) ==
  /\ Handle
  /\ nextPub <= MaxPubs
  /\ IF IsValid(data, FALSE)
     THEN /\ pubs' = Put(pubs, nextPub,
                         SerializerCreate(u, ValidatedData(data, FALSE)))
          /\ nextPub' = nextPub + 1
          /\ resp' = Response("create", u, nextPub, 201, "", {})
     ELSE /\ resp' = Response("create", u, 0, 400, "ValidationError", {})
          /\ UNCHANGED <<pubs, nextPub>>
  /\ UNCHANGED <<ledger, notifs, nextNotif>>

\* GET list
List(u, keywords) ==
  /\ Handle
  /\ resp' = Response("list", u, 0, 200, "", GetQueryset(u, keywords))
  /\ UNCHANGED <<pubs, nextPub, ledger, notifs, nextNotif>>

(* ------------------------ PublicationDetailView ----------------------- *)
\* GET detail
Retrieve(u, id) ==
  /\ Handle
  /\ LET code == GetObjectCode(u, id)
     IN  /\ pubs' = IF code = 200 THEN [pubs EXCEPT ![id] = GetObject(u, id)]
                    ELSE pubs
         /\ resp' = Response("retrieve", u, id, code, ErrorOf(code), {})
  /\ UNCHANGED <<nextPub, ledger, notifs, nextNotif>>

\* PUT (partial = FALSE) and PATCH (partial = TRUE)
Update(u, id, partial, data) ==
  /\ Handle
  /\ LET code == GetObjectCode(u, id)
     IN
     IF code # 200
     THEN /\ resp' = Response("update", u, id, code, ErrorOf(code), {})
          /\ UNCHANGED <<pubs, notifs, nextNotif>>
     ELSE IF ~IsValid(data, partial)
     THEN /\ pubs' = [pubs EXCEPT ![id] = GetObject(u, id)]
          /\ resp' = Response("update", u, id, 400, "ValidationError", {})
          /\ UNCHANGED <<notifs, nextNotif>>
     ELSE LET r == PerformUpdate(u, id, GetObject(u, id), data,
                                 ValidatedData(data, partial))
          IN  /\ pubs' = [pubs EXCEPT ![id] = r.pub]
              /\ notifs' = AddNotifications(r.new)
              /\ nextNotif' = nextNotif + Len(r.new)
              /\ resp' = Response("update", u, id, r.code, r.error, {})
  /\ UNCHANGED <<nextPub, ledger>>

\* the rows that reference a deleted publication are deleted with it
CascadeViews(id) == {k \in DOMAIN ledger : k[1] = id}

CascadeNotifications(id) ==
  {n \in DOMAIN notifs : notifs[n].related_publication = id}

\* DELETE
Destroy(u, id) ==
  /\ Handle
  /\ LET code == GetObjectCode(u, id)
     IN
     IF code # 200
     THEN /\ resp' = Response("destroy", u, id, code, ErrorOf(code), {})
          /\ UNCHANGED <<pubs, ledger, notifs>>
     ELSE /\ pubs' = Drop(pubs, {id})
          /\ ledger' = Drop(ledger, CascadeViews(id))
          /\ notifs' = Drop(notifs, CascadeNotifications(id))
          /\ resp' = Response("destroy", u, id, 204, "", {})
  /\ UNCHANGED <<nextPub, nextNotif>>

(* --------------------------- ViewsUpdateView -------------------------- *)
ActionIn == {"like", "dislike", "love"}

NewRow == [user_liked |-> FALSE, user_disliked |-> FALSE]

\* Views.objects.get_or_create(publication, user, defaults)
GetOrCreate(id, u) ==
  IF <<id, u>> \in DOMAIN ledger THEN ledger[<<id, u>>] ELSE NewRow

\* only a repeated like is refused
AlreadyReacted_LikeOnly(view_obj, action) ==
  action = "like" /\ view_obj.user_liked

AlreadyReacted(view_obj, action) ==
  \/ action = "like" /\ view_obj.user_liked
  \/ action = "dislike" /\ view_obj.user_disliked

\* the opposite flag is not cleared
SetReaction_KeepOpposite(view_obj, action) ==
  IF action = "like"
  THEN [view_obj EXCEPT !.user_liked = TRUE]
  ELSE [view_obj EXCEPT !.user_disliked = TRUE]

SetReaction(view_obj, action) ==
  IF action = "like"
  THEN [view_obj EXCEPT !.user_liked = TRUE, !.user_disliked = FALSE]
  ELSE [view_obj EXCEPT !.user_disliked = TRUE, !.user_liked = FALSE]

\* PATCH react
React(u, id, action) ==
  /\ Handle
  /\ IF id \notin DOMAIN pubs
     THEN /\ resp' = Response("react", u, id, 404, "NotFound", {})
          /\ UNCHANGED ledger
     ELSE IF action \notin {"like", "dislike"}
     THEN /\ resp' = Response("react", u, id, 400, "InvalidAction", {})
          /\ UNCHANGED ledger
     ELSE LET view_obj == GetOrCreate(id, u)
          IN  IF AlreadyReacted(view_obj, action)
              THEN /\ ledger' = Put(ledger, <<id, u>>, view_obj)
                   /\ resp' = Response("react", u, id, 400, "AlreadyReacted", {})
              ELSE /\ ledger' = Put(ledger, <<id, u>>,
                                       SetReaction(view_obj, action))
                   /\ resp' = Response("react", u, id, 200, "", {})
  /\ UNCHANGED <<pubs, nextPub, notifs, nextNotif>>

(* --------------------------- notifications ---------------------------- *)
\* <<partial, is_read, message>> of a PUT / PATCH on a notification
MarkReadRequests ==
  {<<TRUE, r, "<absent>">> : r \in {"<absent>", "true", "false"}}
    \cup {<<TRUE, "true", "blank">>, <<FALSE, "true", "text">>,
          <<FALSE, "true", "<absent>">>}

\* message is required unless the update is partial; validate_message
NotificationIsValid(message, partial) ==
  IF message = "<absent>" THEN partial ELSE message # "blank"

\* NotificationSerializer.update
NotificationUpdate(instance, is_read) ==
  [instance EXCEPT !.is_read = IF is_read = "<absent>" THEN instance.is_read
                               ELSE is_read = "true"]

\* NotificationMarkReadView: PUT / PATCH on one notification of the caller
MarkRead(u, n, partial, is_read, message) ==
  /\ Handle
  /\ IF n \notin DOMAIN notifs \/ notifs[n].user # u
     THEN /\ resp' = Response("mark_read", u, n, 404, "NotFound", {})
          /\ UNCHANGED notifs
     ELSE IF ~NotificationIsValid(message, partial)
     THEN /\ resp' = Response("mark_read", u, n, 400, "ValidationError", {})
          /\ UNCHANGED notifs
     ELSE /\ notifs' = [notifs EXCEPT
                          ![n] = NotificationUpdate(notifs[n], is_read)]
          /\ resp' = Response("mark_read", u, n, 200, "", {})
  /\ UNCHANGED <<pubs, nextPub, ledger, nextNotif>>

\* the filter on the user is missing
Unread_AnyUser(u) == {n \in DOMAIN notifs : ~notifs[n].is_read}

Unread(u) == {n \in DOMAIN notifs : notifs[n].user = u /\ ~notifs[n].is_read}

\* NotificationMarkAllReadView.patch
MarkAllRead(u) ==
  /\ Handle
  /\ IF Unread(u) = {}
     THEN UNCHANGED notifs
     ELSE notifs' = [n \in DOMAIN notifs |->
                       IF n \in Unread(u)
                       THEN [notifs[n] EXCEPT !.is_read = TRUE]
                       ELSE notifs[n]]
  /\ resp' = Response("mark_all_read", u, 0, 200, "", {})
  /\ UNCHANGED <<pubs, nextPub, ledger, nextNotif>>

(* --------------------------- specification ---------------------------- *)
Init ==
  /\ nreq = 0
  /\ pubs = EmptyFn
  /\ nextPub = 1
  /\ ledger = EmptyFn
  /\ notifs = EmptyFn
  /\ nextNotif = 1
  /\ resp = Response("none", NoUser, 0, 0, "", {})
  /\ inflight = EmptyFn

Next ==
  \/ \E u \in Users, data \in CreatePayloads : Create(u, data)
  \/ \E u \in Users, keywords \in KeywordsIn : List(u, keywords)
  \/ \E u \in Users, id \in PubIds : Retrieve(u, id)
  \/ \E u \in Users, id \in PubIds, r \in UpdateRequests :
       Update(u, id, r[1], r[2])
  \/ \E u \in Users, id \in PubIds : Destroy(u, id)
  \/ \E u \in Users, id \in PubIds, action \in ActionIn : React(u, id, action)
  \/ \E u \in Users, n \in 1..nextNotif, r \in MarkReadRequests :
       MarkRead(u, n, r[1], r[2], r[3])
  \/ \E u \in Users : MarkAllRead(u)

Spec == Init /\ [][Next]_vars

(* ---------------- requests running concurrently ----------------------- *)
\* ViewsUpdateView.patch up to its save(): the lookup, the action check,
\* get_or_create (which commits a new row) and the flags set on view_obj
ReactBegin(u, id, action) ==
  /\ Begin
  /\ IF id \notin DOMAIN pubs
     THEN /\ resp' = Response("react", u, id, 404, "NotFound", {})
          /\ UNCHANGED <<ledger, inflight>>
     ELSE IF action \notin {"like", "dislike"}
     THEN /\ resp' = Response("react", u, id, 400, "InvalidAction", {})
          /\ UNCHANGED <<ledger, inflight>>
     ELSE LET view_obj == GetOrCreate(id, u)
          IN  /\ ledger' = Put(ledger, <<id, u>>, view_obj)
              /\ IF AlreadyReacted(view_obj, action)
                 THEN /\ resp' = Response("react", u, id, 400, "AlreadyReacted", {})
                      /\ UNCHANGED inflight
                 ELSE /\ Cardinality(DOMAIN inflight) < MaxInflight
                      /\ inflight' =
                            Put(inflight, nreq',
                                [op |-> "react", user |-> u, id |-> id,
                                 action |-> action,
                                 view_obj |-> SetReaction(view_obj, action)])
                      /\ UNCHANGED resp
  /\ UNCHANGED <<pubs, nextPub, notifs, nextNotif>>

\* view_obj.save(update_fields=["user_liked", "user_disliked"]) and the
\* response; the UPDATE of a row deleted meanwhile raises DatabaseError
ReactSave(k) ==
  /\ k \in DOMAIN inflight
  /\ inflight[k].op = "react"
  /\ LET r == inflight[k]
         key == <<r.id, r.user>>
     IN  IF key \in DOMAIN ledger
         THEN /\ ledger' = [ledger EXCEPT ![key] = r.view_obj]
              /\ resp' = Response("react", r.user, r.id, 200, "", {})
         ELSE /\ resp' = Response("react", r.user, r.id, 500, "DatabaseError", {})
              /\ UNCHANGED ledger
  /\ inflight' = Drop(inflight, {k})
  /\ UNCHANGED <<nreq, pubs, nextPub, notifs, nextNotif>>

\* get_or_create statement by statement. Its SELECT, after the lookup of the
\* publication and the action check, when it finds no row of the pair (when
\* it finds one, get_or_create is that single statement: ReactBegin)
ReactGet(u, id, action) ==
  /\ Begin
  /\ id \in DOMAIN pubs
  /\ action \in {"like", "dislike"}
  /\ <<id, u>> \notin DOMAIN ledger
  /\ Cardinality(DOMAIN inflight) < MaxInflight
  /\ inflight' = Put(inflight, nreq',
                     [op |-> "get_or_create", user |-> u, id |-> id,
                      action |-> action])
  /\ UNCHANGED <<resp, pubs, nextPub, ledger, notifs, nextNotif>>

\* the INSERT meets the unique constraint on (publication, user)
InsertViolatesUnique(key) == key \in DOMAIN ledger

\* a plain create(): the IntegrityError of the INSERT reaches the caller
CreateOrFetch_Raise(key) ==
  IF InsertViolatesUnique(key)
  THEN [error |-> "IntegrityError", created |-> FALSE, view_obj |-> NewRow]
  ELSE [error |-> "", created |-> TRUE, view_obj |-> NewRow]

\* the INSERT of get_or_create: (view_obj, created); when another request
\* has inserted the row since the SELECT, get_or_create catches the
\* IntegrityError and returns the row that is there
CreateOrFetch(key) ==
  IF InsertViolatesUnique(key)
  THEN [error |-> "", created |-> FALSE, view_obj |-> ledger[key]]
  ELSE [error |-> "", created |-> TRUE, view_obj |-> NewRow]

\* the INSERT of get_or_create and the flags set on view_obj; the INSERT for
\* a publication deleted meanwhile fails on its foreign key
ReactInsert(k) ==
  /\ k \in DOMAIN inflight
  /\ inflight[k].op = "get_or_create"
  /\ LET r == inflight[k]
         key == <<r.id, r.user>>
     IN  IF r.id \notin DOMAIN pubs
         THEN /\ resp' = Response("react", r.user, r.id, 500,
                                  "IntegrityError", {})
              /\ inflight' = Drop(inflight, {k})
              /\ UNCHANGED ledger
         ELSE LET g == CreateOrFetch(key)
              IN  IF g.error # ""
                  THEN /\ resp' = Response("react", r.user, r.id, 500,
                                           g.error, {})
                       /\ inflight' = Drop(inflight, {k})
                       /\ UNCHANGED ledger
                  ELSE /\ ledger' = Put(ledger, key, g.view_obj)
                       /\ IF AlreadyReacted(g.view_obj, r.action)
                          THEN /\ resp' = Response("react", r.user, r.id, 400,
                                                   "AlreadyReacted", {})
                               /\ inflight' = Drop(inflight, {k})
                          ELSE /\ inflight' =
                                    [inflight EXCEPT
                                       ![k] = [op |-> "react",
                                               user |-> r.user, id |-> r.id,
                                               action |-> r.action,
                                               view_obj |->
                                                 SetReaction(g.view_obj,
                                                             r.action),
                                               created |-> g.created]]
                               /\ UNCHANGED resp
  /\ UNCHANGED <<nreq, pubs, nextPub, notifs, nextNotif>>

NextC ==
  \/ \E u \in Users, data \in CreatePayloads : Create(u, data)
  \/ \E u \in Users, id \in PubIds : Retrieve(u, id)
  \/ \E u \in Users, id \in PubIds : Destroy(u, id)
  \/ \E u \in Users, id \in PubIds, action \in ActionIn :
       ReactBegin(u, id, action)
  \/ \E k \in 1..MaxRequests : ReactSave(k)
  \/ \E u \in Users, id \in PubIds, action \in ActionIn :
       ReactGet(u, id, action)
  \/ \E k \in 1..MaxRequests : ReactInsert(k)

SpecC == Init /\ [][NextC]_vars

(* ------- detail requests running concurrently, statement by statement ---- *)
\* super().get_object(): the row is read into the request's own instance
\* and the object permission is checked on it
GetObjectLoad(u, id, method) ==
  /\ Begin
  /\ LET code == GetObjectCode(u, id)
     IN  IF code # 200
         THEN /\ resp' = Response(method, u, id, code, ErrorOf(code), {})
              /\ UNCHANGED inflight
         ELSE /\ Cardinality(DOMAIN inflight) < MaxInflight
              /\ inflight' =
                    Put(inflight, nreq',
                        [op |-> "get_object", method |-> method, user |-> u,
                         id |-> id, publication |-> pubs[id]])
              /\ UNCHANGED resp
  /\ UNCHANGED <<pubs, nextPub, ledger, notifs, nextNotif>>

\* the rest of get_object: exists() on Views, then views += 1 on the
\* instance read before and save(update_fields=["views"]) of that value;
\* a GET answers here, a PUT or PATCH goes on with the instance
GetObjectCount(k) ==
  /\ k \in DOMAIN inflight
  /\ inflight[k].op = "get_object"
  /\ LET r == inflight[k]
         publication == CountView(r.user, r.id, r.publication)
     IN  /\ pubs' = IF <<r.id, r.user>> \in DOMAIN ledger THEN pubs
                    ELSE [pubs EXCEPT ![r.id].views = publication.views]
         /\ IF r.method = "retrieve"
            THEN /\ resp' = Response("retrieve", r.user, r.id, 200, "", {})
                 /\ inflight' = Drop(inflight, {k})
            ELSE /\ inflight' =
                       [inflight EXCEPT
                          ![k] = [op |-> "perform_update", user |-> r.user,
                                  id |-> r.id, instance |-> publication]]
                 /\ UNCHANGED resp
  /\ UNCHANGED <<nreq, nextPub, ledger, notifs, nextNotif>>

\* validation and perform_update on the request's instance: instance.save()
\* writes every field of the instance, views as read by get_object included
UpdateFinish(k, partial, data) ==
  /\ k \in DOMAIN inflight
  /\ inflight[k].op = "perform_update"
  /\ LET r == inflight[k]
     IN  IF ~IsValid(data, partial)
         THEN /\ resp' = Response("update", r.user, r.id, 400,
                                  "ValidationError", {})
              /\ UNCHANGED <<pubs, notifs, nextNotif>>
         ELSE LET res == PerformUpdate(r.user, r.id, r.instance, data,
                                       ValidatedData(data, partial))
              IN  /\ pubs' = IF res.code = 200
                             THEN [pubs EXCEPT ![r.id] = res.pub] ELSE pubs
                  /\ notifs' = AddNotifications(res.new)
                  /\ nextNotif' = nextNotif + Len(res.new)
                  /\ resp' = Response("update", r.user, r.id, res.code,
                                      res.error, {})
  /\ inflight' = Drop(inflight, {k})
  /\ UNCHANGED <<nreq, nextPub, ledger>>

\* the bodies of the updates in the races: an author's new title, an
\* approval, a rejection with its note, and a title that fails validation
RaceUpdates ==
  {<<TRUE, Payload(StatusAbsent, Absent, T2)>>,
   <<TRUE, Payload("approved", Absent, Absent)>>,
   <<TRUE, Payload("rejected", TooShort, Absent)>>,
   <<TRUE, Payload(StatusAbsent, Absent, Short)>>}

NextV ==
  \/ \E u \in Users, data \in CreatePayloads : Create(u, data)
  \/ \E u \in Users, id \in PubIds, action \in ActionIn : React(u, id, action)
  \/ \E u \in Users, id \in PubIds, method \in {"retrieve", "update"} :
       GetObjectLoad(u, id, method)
  \/ \E k \in 1..MaxRequests : GetObjectCount(k)
  \/ \E k \in 1..MaxRequests, r \in RaceUpdates :
       UpdateFinish(k, r[1], r[2])

SpecV == Init /\ [][NextV]_vars

(* ------------------------------ claims -------------------------------- *)
DbVars == <<pubs, nextPub, ledger, notifs, nextNotif>>

\* C1 (as claimed): detail accesses of p by u add 1 to p.views in total, so a
\* detail access by u directly after a successful detail access of the same
\* publication by u adds nothing.
C1_ViewCountedOnce ==
  [][\A u \in Users, id \in PubIds :
       ( /\ resp.op = "retrieve" /\ resp.code = 200
         /\ resp.user = u /\ resp.target = id
         /\ Retrieve(u, id) )
       => pubs'[id].views = pubs[id].views]_vars

\* C2: no Views row ever has user_liked and user_disliked both true, and the
\* save of a like or dislike leaves exactly the flag of its action set,
\* whatever other request of the same user ran in between.
C2_NeverBoth ==
  \A key \in DOMAIN ledger :
     ~(ledger[key].user_liked /\ ledger[key].user_disliked)

C2_SaveSetsExactlyOne ==
  \A k \in DOMAIN inflight :
     ReactSave(k) /\ resp'.code = 200
     => LET row == ledger'[<<inflight[k].id, inflight[k].user>>]
        IN  /\ row.user_liked = (inflight[k].action = "like")
            /\ row.user_disliked = (inflight[k].action = "dislike")

C2_MutuallyExclusive == []C2_NeverBoth /\ [][C2_SaveSetsExactlyOne]_vars

\* a dislike was saved while a like of the same user on the same publication
\* is still in flight
C2_Witness ==
  /\ resp.op = "react" /\ resp.code = 200
  /\ <<resp.target, resp.user>> \in DOMAIN ledger
  /\ ledger[<<resp.target, resp.user>>].user_disliked
  /\ \E k \in DOMAIN inflight :
        /\ inflight[k].user = resp.user /\ inflight[k].id = resp.target
        /\ inflight[k].action = "like"

\* C3: a like (dislike) on a row already liked (disliked) fails with the
\* already-reacted error and changes no table; an action other than like or
\* dislike fails and creates no Views row.
C3_Step ==
  resp'.op = "react" =>
    \A a \in ActionIn :
       React(resp'.user, resp'.target, a) =>
         LET key == <<resp'.target, resp'.user>>
         IN  /\ ( /\ key \in DOMAIN ledger
                  /\ \/ a = "like" /\ ledger[key].user_liked
                     \/ a = "dislike" /\ ledger[key].user_disliked )
                => /\ resp'.code = 400 /\ resp'.error = "AlreadyReacted"
                   /\ UNCHANGED DbVars
             /\ a \notin {"like", "dislike"}
                => /\ resp'.code \in {400, 404}
                   /\ DOMAIN ledger' = DOMAIN ledger
                   /\ UNCHANGED DbVars

C3_DuplicateReactionRejected == [][C3_Step]_vars

\* a repeated like has just been refused
C3_Witness ==
  /\ resp.op = "react" /\ resp.error = "AlreadyReacted"
  /\ <<resp.target, resp.user>> \in DOMAIN ledger
  /\ ledger[<<resp.target, resp.user>>].user_liked

\* C4 (as claimed): an update issued by a caller who is not an editor never
\* changes the publication's status.
C4_OnlyEditorsChangeStatus ==
  [][\A id \in DOMAIN pubs :
       ( /\ resp'.op = "update" /\ resp'.target = id
         /\ role(resp'.user) # "editor" )
       => pubs'[id].status = pubs[id].status]_vars

\* what ChangeStatus is said to store for a request body
C5_Stored(u, id, data) ==
  /\ pubs'[id].status = data.status
  /\ pubs'[id].editor = u
  /\ pubs'[id].rejection_note =
       IF data.status = "rejected"
       THEN IF data.rejection_note = Absent \/ Strip(data.rejection_note) = <<>>
            THEN Null
            ELSE Strip(data.rejection_note)
       ELSE Null

\* the step is an update by an editor on an existing publication
C5_EditorUpdate ==
  /\ resp'.op = "update" /\ role(resp'.user) = "editor"
  /\ resp'.target \in DOMAIN pubs

\* ... whose body r carries a status, passes validation and has no JSON null
\* as rejection_note
C5_IsChangeStatus(r) ==
  /\ r[2].status # StatusAbsent /\ r[2].rejection_note # Null
  /\ IsValid(r[2], r[1])
  /\ Update(resp'.user, resp'.target, r[1], r[2])

C6_Step ==
  ( /\ resp'.op = "update" /\ resp'.code = 200
    /\ role(resp'.user) = "editor"
    /\ \E r \in UpdateRequests :
          /\ r[2].status # StatusAbsent
          /\ Update(resp'.user, resp'.target, r[1], r[2]) )
  => LET e == resp'.user
         id == resp'.target
         new == DOMAIN notifs' \ DOMAIN notifs
         forAuthor == {n \in new : notifs'[n].message.kind = "author"}
         forEditors == new \ forAuthor
     IN  /\ Cardinality(forAuthor) = 1
         /\ \A n \in forAuthor : notifs'[n].user = pubs'[id].author
         /\ \A v \in Users :
               Cardinality({n \in forEditors : notifs'[n].user = v})
                 = IF role(v) = "editor" /\ v # e THEN 1 ELSE 0
         /\ \A n \in new : /\ notifs'[n].related_publication = id
                           /\ ~notifs'[n].is_read
         /\ \A n \in DOMAIN notifs :
               n \in DOMAIN notifs' /\ notifs'[n] = notifs[n]

C6_NotificationFanOut == [][C6_Step]_vars

\* an editor changed the status of a publication written by the other editor,
\* who now holds the author's notification and the peer's one
C6_Witness ==
  /\ resp.op = "update" /\ resp.code = 200 /\ role(resp.user) = "editor"
  /\ resp.target \in DOMAIN pubs
  /\ role(pubs[resp.target].author) = "editor"
  /\ pubs[resp.target].author # resp.user
  /\ Cardinality({n \in DOMAIN notifs :
                    notifs[n].user = pubs[resp.target].author}) = 2
  /\ \A n \in DOMAIN notifs : notifs[n].user # resp.user

\* C7 (as claimed): a rejection_note is stored only on a rejected publication.
C7_NoteOnlyWhenRejected ==
  \A id \in DOMAIN pubs :
     pubs[id].rejection_note # Null => pubs[id].status = "rejected"

\* C8 (as claimed): an update by the author of a rejected publication fails
\* with the invalid-state error and leaves title, status and rejection_note
\* as they were.
C8_RejectedBlocksAuthor ==
  [][\A id \in DOMAIN pubs :
       ( /\ resp'.op = "update" /\ resp'.target = id
         /\ resp'.user = pubs[id].author
         /\ pubs[id].status = "rejected" )
       => /\ resp'.code = 500 /\ resp'.error = "ValueError"
          /\ pubs'[id].title = pubs[id].title
          /\ pubs'[id].status = pubs[id].status
          /\ pubs'[id].rejection_note = pubs[id].rejection_note]_vars

\* u is neither an editor nor the author of a pending or rejected row
C9_HiddenFrom(u, row) ==
  /\ role(u) # "editor" /\ row.author # u
  /\ row.status \in {"pending", "rejected"}

\* C9: a caller who is neither editor nor author never obtains a pending or
\* rejected publication: it is in none of that caller's list results, and a
\* detail request for it is denied and changes nothing, views included.
\* Editors and authors are let through to the detail of any publication and
\* an unfiltered list holds every publication (editor) or every own one.
C9_Step ==
  /\ resp'.op = "list" =>
       /\ \A id \in DOMAIN pubs :
             C9_HiddenFrom(resp'.user, pubs[id]) => id \notin resp'.ids
       /\ List(resp'.user, Absent) =>
             \A id \in DOMAIN pubs :
                ( \/ role(resp'.user) = "editor"
                  \/ pubs[id].author = resp'.user ) => id \in resp'.ids
  /\ ( /\ resp'.op \in {"retrieve", "update", "destroy"}
       /\ resp'.target \in DOMAIN pubs )
     => LET u == resp'.user
            row == pubs[resp'.target]
        IN  /\ C9_HiddenFrom(u, row) =>
                 /\ resp'.code = 403 /\ resp'.error = "PermissionDenied"
                 /\ UNCHANGED DbVars
            /\ (resp'.op = "retrieve" /\ (role(u) = "editor" \/ row.author = u))
                 => resp'.code = 200

C9_HiddenFromStrangers == [][C9_Step]_vars

\* a non-editor was just refused the detail of somebody else's pending
\* publication, whose view counter is still 0
C9_Witness ==
  /\ resp.op = "retrieve" /\ resp.code = 403
  /\ resp.target \in DOMAIN pubs
  /\ C9_HiddenFrom(resp.user, pubs[resp.target])
  /\ pubs[resp.target].status = "pending"
  /\ pubs[resp.target].views = 0

\* C10: MarkAllRead(u) succeeds; with no unread notification of u no table
\* changes; otherwise the one step turns exactly u's unread rows to read.
\* Either way other users' rows, every other field and every other table
\* stay as they were.
C10_Step ==
  resp'.op = "mark_all_read" =>
    LET u == resp'.user
    IN  /\ resp'.code = 200
        /\ (\A n \in DOMAIN notifs : notifs[n].user = u => notifs[n].is_read)
             => UNCHANGED DbVars
        /\ DOMAIN notifs' = DOMAIN notifs
        /\ \A n \in DOMAIN notifs :
              IF notifs[n].user = u
              THEN notifs'[n] = [notifs[n] EXCEPT !.is_read = TRUE]
              ELSE notifs'[n] = notifs[n]
        /\ UNCHANGED <<pubs, nextPub, ledger, nextNotif>>

C10_MarkAllRead == [][C10_Step]_vars

\* u's notifications were just marked read, another user's is still unread
C10_Witness ==
  /\ resp.op = "mark_all_read"
  /\ \E n \in DOMAIN notifs : notifs[n].user = resp.user /\ notifs[n].is_read
  /\ \E n \in DOMAIN notifs : notifs[n].user # resp.user /\ ~notifs[n].is_read

\* C11 (as claimed): MarkRead on a notification the caller does not own
\* fails with not-found and leaves it as it was; a successful MarkRead leaves
\* the notification read and changes nothing else.
C11_MarkReadMarksRead ==
  [][resp'.op = "mark_read" =>
       LET u == resp'.user
           n == resp'.target
       IN  /\ (n \in DOMAIN notifs /\ notifs[n].user # u)
                => /\ resp'.code = 404 /\ resp'.error = "NotFound"
                   /\ notifs' = notifs
           /\ resp'.code = 200
                => /\ notifs'[n].is_read
                   /\ notifs' = [notifs EXCEPT ![n].is_read = TRUE]
           /\ UNCHANGED <<pubs, nextPub, ledger, nextNotif>>]_vars

C13_StatusInEnum ==
  /\ \A id \in DOMAIN pubs :
        pubs[id].status \in {"pending", "approved", "rejected"}
  /\ (resp.op = "create" /\ resp.code = 201)
       => /\ pubs[resp.target].status = "pending"
          /\ pubs[resp.target].author = resp.user
          /\ pubs[resp.target].editor = NoUser

\* C14 (as claimed): only an update by the author changes a publication's
\* content (its title here); an update by anyone else leaves it as it was.
C14_ContentOnlyByAuthor ==
  [][\A id \in DOMAIN pubs :
       ( /\ id \in DOMAIN pubs'
         /\ pubs'[id].title # pubs[id].title )
       => /\ resp'.op = "update" /\ resp'.target = id
          /\ resp'.user = pubs[id].author]_vars

\* C17 (as claimed): an update that ends in an error leaves every table as it
\* was, the publication's view counter included.
C17_FailedUpdateAppliesNothing ==
  [][(resp'.op = "update" /\ resp'.code >= 400) => UNCHANGED DbVars]_vars

\* C18: once a Views row exists for (p, u), whatever its flags, a detail
\* request of p by u (GET, PUT, PATCH) leaves p.views as it was; so a user who
\* reacted before the first read adds nothing.
C18_Step ==
  ( /\ resp'.op \in {"retrieve", "update"}
    /\ <<resp'.target, resp'.user>> \in DOMAIN ledger )
  => /\ resp'.target \in DOMAIN pubs'
     /\ pubs'[resp'.target].views = pubs[resp'.target].views

C18_LedgerRowStopsCounting == [][C18_Step]_vars

\* u reacted to a publication nobody had read and then read it: 0 views
C18_Witness ==
  /\ resp.op = "retrieve" /\ resp.code = 200
  /\ <<resp.target, resp.user>> \in DOMAIN ledger
  /\ pubs[resp.target].views = 0

\* C19 (as claimed): a read notification is never unread again, and no
\* notification's recipient, message or publication changes.
C19_ReadIsMonotonic ==
  [][\A n \in DOMAIN notifs :
       n \in DOMAIN notifs'
       => /\ notifs[n].is_read => notifs'[n].is_read
          /\ notifs'[n].user = notifs[n].user
          /\ notifs'[n].message = notifs[n].message
          /\ notifs'[n].related_publication
               = notifs[n].related_publication]_vars

\* C20 (as claimed): a publication is deleted only by an editor or by its
\* author.
C20_DestroyOnlyByEditorOrAuthor ==
  [][\A id \in DOMAIN pubs :
       id \notin DOMAIN pubs'
       => /\ resp'.op = "destroy" /\ resp'.target = id
          /\ \/ role(resp'.user) = "editor"
             \/ resp'.user = pubs[id].author]_vars

\* C15 (as claimed): whatever the interleaving of detail reads and updates of
\* a publication, its stored views value is never negative and never
\* decreases.
C15_ViewsNeverDecrease ==
  [][\A id \in DOMAIN pubs :
       id \in DOMAIN pubs'
       => /\ pubs'[id].views >= 0
          /\ pubs'[id].views >= pubs[id].views]_vars

\* C16: when requests of one user on one publication race through their
\* first reaction and first view, the INSERT of a request that lost the race
\* adds no second Views row and changes none, and that request goes on to
\* its save or is refused as a repeated reaction, never with the error of
\* the INSERT; the INSERT that won adds the one row. A detail read creates
\* no Views row at all.
C16_Step ==
  /\ \A k \in DOMAIN inflight :
       ( /\ inflight[k].op = "get_or_create"
         /\ inflight[k].id \in DOMAIN pubs
         /\ \/ k \notin DOMAIN inflight'
            \/ inflight'[k].op # "get_or_create" )
       => LET key == <<inflight[k].id, inflight[k].user>>
          IN  /\ \/ /\ k \in DOMAIN inflight'
                    /\ inflight'[k].op = "react"
                 \/ /\ k \notin DOMAIN inflight'
                    /\ resp'.code = 400 /\ resp'.error = "AlreadyReacted"
              /\ IF key \in DOMAIN ledger
                 THEN ledger' = ledger
                 ELSE ledger' = Put(ledger, key, NewRow)
  /\ \A u \in Users, id \in PubIds : Retrieve(u, id) => ledger' = ledger

C16_OneRowNoRaceError == [][C16_Step]_vars

\* a request whose SELECT found no row has lost the race: its INSERT created
\* nothing and it goes on with the row of the other request
C16_Witness ==
  \E k \in DOMAIN inflight :
     /\ inflight[k].op = "react"
     /\ "created" \in DOMAIN inflight[k]
     /\ ~inflight[k].created

====
